---- MODULE Spec2Model ----
(***************************************************************************)
(* Token balance aggregation (ClientTokenEth.GetTokenBalance) and decimal  *)
(* rendering (bigIntString / bigIntFloat / clean) of tokenchain/eth-client.*)
(*                                                                         *)
(* Arbitrary-precision integers (big.Int) are held in the state as        *)
(* sequences of decimal digits (most significant first, zero is <<0>>).    *)
(* Byte strings                                                            *)
(* produced by the renderer are sequences of byte codes ('0' is 48, '.' is *)
(* 46), so that clean can index and compare them as the source does.       *)
(* A big.Float is its mantissa and binary exponent.                        *)
(***************************************************************************)
EXTENDS Integers, Sequences, FiniteSets, TLC

(***************************************************************************)
(* Arbitrary-precision naturals (math/big.Int restricted to x >= 0).  The  *)
(* arithmetic works on limbs: a natural is a sequence of numbers below     *)
(* 10^9, most significant first, with no leading zero limb (zero is <<0>>).*)
(* Decimal digit sequences are converted at the boundary.                  *)
(***************************************************************************)
Base == 10^9

Zeros(n) == [i \in 1..n |-> 0]

\* the first index from i on where s is not zero (Len(s) + 1 if none)
RECURSIVE FirstNonZero(_, _)
FirstNonZero(s, i) ==
  IF i > Len(s) \/ s[i] # 0 THEN i ELSE FirstNonZero(s, i + 1)

\* drop leading zeros
Norm(s) ==
  LET k == FirstNonZero(s, 1)
  IN  IF k > Len(s) THEN <<0>> ELSE SubSeq(s, k, Len(s))

IsZero(a) == a = <<0>>

\* -1, 0, 1 as a < b, a = b, a > b  (big.Int.Cmp)
RECURSIVE CmpFrom(_, _, _)
CmpFrom(a, b, i) ==
  IF i > Len(a) THEN 0
  ELSE IF a[i] # b[i] THEN (IF a[i] < b[i] THEN -1 ELSE 1)
  ELSE CmpFrom(a, b, i + 1)

Cmp(a, b) ==
  IF Len(a) # Len(b) THEN (IF Len(a) < Len(b) THEN -1 ELSE 1) ELSE CmpFrom(a, b, 1)

\* 2 * a: the carry into a limb depends on the next limb alone
Dbl(a) ==
  LET n == Len(a)
      low == [i \in 1..n |->
                (2 * a[i] + (IF i < n /\ 2 * a[i + 1] >= Base THEN 1 ELSE 0)) % Base]
  IN  IF 2 * a[1] >= Base THEN <<1>> \o low ELSE <<>> \o low

\* a div 2
Halve(a) ==
  LET n == Len(a)
      q == [i \in 1..n |->
              (a[i] + (IF i > 1 /\ a[i - 1] % 2 = 1 THEN Base ELSE 0)) \div 2]
  IN  Norm(<<>> \o q)

IsOdd(a) == a[Len(a)] % 2 = 1

\* the last index up to i where a is not Base - 1 (0 if none)
RECURSIVE LastNonMax(_, _)
LastNonMax(a, i) == IF i = 0 \/ a[i] # Base - 1 THEN i ELSE LastNonMax(a, i - 1)

\* a + 1
Inc(a) ==
  LET n == Len(a)
      m == LastNonMax(a, n)
  IN  IF m = 0 THEN <<1>> \o Zeros(n)
      ELSE <<>> \o [i \in 1..n |->
                      IF i < m THEN a[i] ELSE IF i = m THEN a[i] + 1 ELSE 0]

\* limb i of a - b (b padded to the length of a) borrows from limb i - 1 when
\* the limbs of a after i are less than those of b
Borrow(a, b, i) ==
  \E j \in (i + 1)..Len(a) : a[j] < b[j] /\ \A m \in (i + 1)..(j - 1) : a[m] = b[m]

SubLimbs(a, b) ==
  [i \in 1..Len(a) |->
     (a[i] - b[i] - (IF Borrow(a, b, i) THEN 1 ELSE 0) + Base) % Base]

\* a - b for a >= b
Sub(a, b) == Norm(SubLimbs(a, Zeros(Len(a) - Len(b)) \o b))

\* a * 2^k
RECURSIVE Shl(_, _)
Shl(a, k) ==
  IF k = 0 \/ IsZero(a) THEN a
  ELSE IF k = 1 THEN Dbl(a)
  ELSE Shl(Shl(a, k \div 2), k - (k \div 2))

\* a div 2^k
RECURSIVE Shr(_, _)
Shr(a, k) ==
  IF k = 0 \/ IsZero(a) THEN a
  ELSE IF k = 1 THEN Halve(a)
  ELSE Shr(Shr(a, k \div 2), k - (k \div 2))

\* a * 10^r + c for 0 <= r <= 8 and 0 <= c < 10^r: every limb gives its top r
\* digits to the limb before it
ShiftDigits(a, r, c) ==
  LET n == Len(a)
      cut == 10^(9 - r)
      b == [i \in 1..(n + 1) |->
              (IF i = 1 THEN 0 ELSE (a[i - 1] % cut) * 10^r)
              + (IF i = n + 1 THEN c ELSE a[i] \div cut)]
  IN  Norm(<<>> \o b)

\* a * 10^d
MulPow10(a, d) ==
  IF IsZero(a) THEN a ELSE ShiftDigits(a, d % 9, 0) \o Zeros(d \div 9)

\* a sequence of decimal digits as a small number
RECURSIVE ToInt(_, _)
ToInt(ds, acc) == IF ds = <<>> THEN acc ELSE ToInt(Tail(ds), 10 * acc + Head(ds))

\* the digits of a small natural
RECURSIVE NatDigits(_)
NatDigits(n) == IF n < 10 THEN <<n>> ELSE NatDigits(n \div 10) \o <<n % 10>>

\* decimal digits (most significant first) to limbs
FromDigits(ds) ==
  LET n == Len(ds)
      m == (n + 8) \div 9
  IN  Norm([j \in 1..m |->
              LET hi == n - 9 * (m - j)
                  lo == IF hi > 9 THEN hi - 8 ELSE 1
              IN  ToInt(SubSeq(ds, lo, hi), 0)])

\* limbs to decimal digits without leading zeros
ToDigits(a) ==
  NatDigits(a[1])
  \o [k \in 1..(9 * (Len(a) - 1)) |->
        (a[2 + ((k - 1) \div 9)] \div 10^(8 - ((k - 1) % 9))) % 10]

\* how often b fits in r (at most 9 times), and what is left
RECURSIVE Fit(_, _, _)
Fit(r, b, c) == IF Cmp(r, b) < 0 THEN [q |-> c, r |-> r] ELSE Fit(Sub(r, b), b, c + 1)

\* schoolbook long division over the decimal digits i..j of a, entered with
\* the remainder r of the digits before i
QuoDigit(f) == [q |-> <<f.q>>, r |-> f.r]

RECURSIVE DivRange(_, _, _, _, _)
DivRange(a, b, i, j, r) ==
  IF i = j
  THEN QuoDigit(Fit(ShiftDigits(r, 1, a[i]), b, 0))
  ELSE LET mid == (i + j) \div 2
           hi == DivRange(a, b, i, mid, r)
           lo == DivRange(a, b, mid + 1, j, hi.r)
       IN  IF Len(hi.r) > 0 THEN [q |-> hi.q \o lo.q, r |-> lo.r] ELSE hi

\* quotient and remainder of a by b (b > 0)
QuoLimbs(d) == [r |-> d.r, q |-> FromDigits(d.q)]

DivDigits(ds, b) == QuoLimbs(DivRange(ds, b, 1, Len(ds), <<0>>))

DivMod(a, b) == DivDigits(ToDigits(a), b)

(***************************************************************************)
(* math/big.Float as the source uses it: big.NewFloat gives precision 53   *)
(* and rounding mode ToNearestEven; SetInt and Quo round to the receiver's *)
(* precision.  A value is zero, or mant * 2^exp with                       *)
(* 2^(Prec-1) <= mant < 2^Prec.                                            *)
(***************************************************************************)
Prec == 53

FloatZero == [zero |-> TRUE, mant |-> <<0>>, exp |-> 0]

\* 2^(Prec-1) and 2^Prec
MantMin == Shl(<<1>>, Prec - 1)
MantMax == Shl(<<1>>, Prec)

\* for n < lo, the least k with n * 2^k >= lo, as n * 2^k and e - k: s
\* doublings at a time while that stays below lo (thirty-two as often as they
\* fit, then sixteen, eight, .. one at most once each), and a last one
RECURSIVE ScaleUpBy(_, _, _, _)
ScaleUpBy(n, lo, e, s) ==
  IF s = 0 THEN [n |-> Dbl(n), e |-> e - 1]
  ELSE LET ns == Shl(n, s)
       IN  IF Cmp(ns, lo) < 0
           THEN ScaleUpBy(ns, lo, e - s, IF s = 32 THEN s ELSE s \div 2)
           ELSE ScaleUpBy(n, lo, e, s \div 2)

\* the least k with n * 2^k >= lo, as n * 2^k and e - k
ScaleUp(n, lo, e) == IF Cmp(n, lo) >= 0 THEN [n |-> n, e |-> e] ELSE ScaleUpBy(n, lo, e, 32)

\* for n >= hi, the least k with n < hi * 2^k, as n, d * 2^k and e + k, by
\* the same steps
RECURSIVE ScaleDownBy(_, _, _, _, _)
ScaleDownBy(n, d, hi, e, s) ==
  IF s = 0 THEN [n |-> n, d |-> Dbl(d), e |-> e + 1]
  ELSE LET his == Shl(hi, s)
       IN  IF Cmp(n, his) >= 0
           THEN ScaleDownBy(n, Shl(d, s), his, e + s, IF s = 32 THEN s ELSE s \div 2)
           ELSE ScaleDownBy(n, d, hi, e, s \div 2)

\* the least k with n < hi * 2^k (hi is d * 2^Prec), as n, d * 2^k and e + k
ScaleDown(n, d, hi, e) ==
  IF Cmp(n, hi) < 0 THEN [n |-> n, d |-> d, e |-> e] ELSE ScaleDownBy(n, d, hi, e, 32)

\* q rounded up when the remainder compares c against half the divisor
\* (ties to even)
Nearest(q, c) == IF c > 0 \/ (c = 0 /\ IsOdd(q)) THEN Inc(q) ELSE q

\* a mantissa that rounding carried to 2^Prec becomes 2^(Prec-1)
Normalized(m, e) ==
  IF m = MantMax
  THEN [zero |-> FALSE, mant |-> MantMin, exp |-> e + 1]
  ELSE [zero |-> FALSE, mant |-> m, exp |-> e]

\* an exact quotient is not rounded
RoundDivided(qr, d, e) ==
  IF IsZero(qr.r) THEN Normalized(qr.q, e)
  ELSE Normalized(Nearest(qr.q, Cmp(Dbl(qr.r), d)), e)

\* a denominator of one leaves nothing to divide
RoundScaled(sc) ==
  IF sc.d = <<1>> THEN Normalized(sc.n, sc.e)
  ELSE RoundDivided(DivMod(sc.n, sc.d), sc.d, sc.e)

\* a numerator that was scaled up is below hi already
ScaleInto(up, d, hi) ==
  IF up.e < 0 THEN [n |-> up.n, d |-> d, e |-> up.e] ELSE ScaleDown(up.n, d, hi, up.e)

Scaled(n, d, lo) == ScaleInto(ScaleUp(n, lo, 0), d, Dbl(lo))

\* the Prec-bit float nearest to n / d (ties to even), for n > 0 and d > 0:
\* n / d is scaled by a power of two into [2^(Prec-1), 2^Prec) and divided
RoundRat(n, d) == RoundScaled(Scaled(n, d, Shl(d, Prec - 1)))

\* z.SetInt(x) on z = big.NewFloat(0)
FloatSetInt(x) == IF IsZero(x) THEN FloatZero ELSE RoundRat(x, <<1>>)

\* z.Quo(x, y) for finite non-zero y
QuoShifted(x, y, s) ==
  IF s >= 0 THEN RoundRat(Shl(x.mant, s), y.mant) ELSE RoundRat(x.mant, Shl(y.mant, 0 - s))

FloatQuo(x, y) == IF x.zero THEN FloatZero ELSE QuoShifted(x, y, x.exp - y.exp)

\* x / 2^k rounded to the nearest integer, ties to even (decimal.round), from
\* h = x div 2^(k-1): an even h leaves less than a half, an odd h a half (when
\* h * 2^(k-1) is x) or more
RoundShifted(x, k, h) ==
  IF IsOdd(h) THEN Nearest(Halve(h), IF Shl(h, k - 1) = x THEN 0 ELSE 1) ELSE Halve(h)

ShrRound(x, k) == IF k = 0 THEN x ELSE RoundShifted(x, k, Shr(x, k - 1))

DigitBytes(ds) == [i \in 1..Len(ds) |-> ds[i] + 48]

\* the digits p of an integer as a fixed-point number with prec fractional
\* digits
PointAt(p, prec) ==
  IF prec = 0 THEN <<>> \o DigitBytes(p)
  ELSE DigitBytes(SubSeq(p, 1, Len(p) - prec)) \o <<46>>
       \o DigitBytes(SubSeq(p, Len(p) - prec + 1, Len(p)))

\* at least one digit before the point
Padded(ds, prec) ==
  PointAt(IF Len(ds) <= prec THEN Zeros(prec + 1 - Len(ds)) \o ds ELSE ds, prec)

\* fmt.Sprintf("%0.<prec>f", x) for a big.Float x and prec >= 0:
\* the exact decimal expansion of x rounded to prec fractional digits
FormatFloat(x, prec) ==
  IF x.zero THEN Padded(<<0>>, prec)
  ELSE Padded(ToDigits(IF x.exp >= 0 THEN MulPow10(Shl(x.mant, x.exp), prec)
                       ELSE ShrRound(MulPow10(x.mant, prec), 0 - x.exp)),
              prec)


\* decimal.round to at most ten digits, on the digits m (no trailing zero)
\* of a number with dexp digits before the point: the nearest value, ties to
\* even, as the first ten digits (or <<1>> with one more digit before the
\* point when the rounding carries out)
RoundedUp(p, dexp) ==
  IF Len(p) > 10 THEN [mant |-> <<1>>, dexp |-> dexp + 1] ELSE [mant |-> p, dexp |-> dexp]

RoundTen(m, dexp) ==
  IF Len(m) <= 10 THEN [mant |-> m, dexp |-> dexp]
  ELSE IF m[11] > 5 \/ (m[11] = 5 /\ (Len(m) > 11 \/ m[10] % 2 = 1))
       THEN RoundedUp(ToDigits(Inc(FromDigits(SubSeq(m, 1, 10)))), dexp)
       ELSE [mant |-> SubSeq(m, 1, 10), dexp |-> dexp]

\* the digits ds without their trailing zeros
RECURSIVE TrimDigits(_)
TrimDigits(ds) ==
  IF Len(ds) > 1 /\ ds[Len(ds)] = 0 THEN TrimDigits(SubSeq(ds, 1, Len(ds) - 1)) ELSE ds

\* %e and %f of the 'g' format, for a number without fractional digits
FormatG(m, dexp) ==
  IF dexp - 1 >= (IF 10 > Len(m) /\ Len(m) >= dexp THEN Len(m) ELSE 10)
  THEN DigitBytes(<<m[1]>>)
       \o (IF Len(m) > 1 THEN <<46>> \o DigitBytes(SubSeq(m, 2, Len(m))) ELSE <<>>)
       \o <<101, 43>>
       \o DigitBytes(IF dexp - 1 < 10 THEN <<0, dexp - 1>> ELSE NatDigits(dexp - 1))
  ELSE DigitBytes(m \o Zeros(dexp - Len(m)))

TrimmedG(r) == FormatG(TrimDigits(r.mant), r.dexp)

\* x.Text('g', 10) for the digits ds of a positive integer
TextG(ds) == TrimmedG(RoundTen(TrimDigits(ds), Len(ds)))

\* x.String() for a float without fractional part (the quotient by
\* bigPow(10, b) = 1 of an integer)
FloatString(x) ==
  IF x.zero THEN <<48>>
  ELSE TextG(ToDigits(IF x.exp >= 0 THEN Shl(x.mant, x.exp) ELSE Shr(x.mant, 0 - x.exp)))

\* fmt.Sprintf("%0.-<n>f", x): the precision is read as empty, '-' is taken
\* as the verb, which big.Float.Format does not know and prints as
\* %!-(*big.Float=<x.String()>); the rest of the format, <n>f, follows as text
BadVerb(x, n) ==
  <<37, 33, 45, 40, 42, 98, 105, 103, 46, 70, 108, 111, 97, 116, 61>>
  \o FloatString(x) \o <<41>> \o DigitBytes(NatDigits(n)) \o <<102>>

\* fmt.Sprintf(fmt.Sprintf("%%0.%vf", decimals), amount), lines 37-38
Sprintf(amount, decimals) ==
  IF decimals >= 0 THEN FormatFloat(amount, decimals) ELSE BadVerb(amount, 0 - decimals)


(***************************************************************************)
(* The renderer of common_tool.go.  A big.Int pointer is nil or points to  *)
(* a natural; a call returns a byte string or panics.                      *)
(***************************************************************************)
NilInt == [nil |-> TRUE, abs |-> <<0>>]
BigInt(ds) == [nil |-> FALSE, abs |-> ds]

Returned(bytes) == [panic |-> FALSE, s |-> bytes]
Panic == [panic |-> TRUE, s |-> <<>>]

\* bytes.TrimRight(b, "0")
RECURSIVE TrimRightZeros(_)
TrimRightZeros(b) ==
  IF b # <<>> /\ b[Len(b)] = 48 THEN TrimRightZeros(SubSeq(b, 1, Len(b) - 1)) ELSE b

\* clean without the "0" put in front of a leading '.'
Cleaned_NoPrefix(stringBytes) ==
  IF stringBytes = <<>> THEN Panic
  ELSE Returned(stringBytes
                \o (IF stringBytes[Len(stringBytes)] = 46 THEN <<48>> ELSE <<>>))

\* clean, lines 62-69: indexing the trimmed bytes panics when nothing is left
Cleaned(stringBytes) ==
  IF stringBytes = <<>> THEN Panic
  ELSE Returned((IF stringBytes[1] = 46 THEN <<48>> ELSE <<>>)
                \o stringBytes
                \o (IF stringBytes[Len(stringBytes)] = 46 THEN <<48>> ELSE <<>>))

\* clean without the trimming of trailing zeros
clean_NoTrim(newNum) == Cleaned(newNum)

clean(newNum) == Cleaned(TrimRightZeros(newNum))

\* bigPow(10, b): big.Int.Exp with a nil modulus gives 1 for b <= 0
bigPow10(b) == IF b <= 0 THEN <<1>> ELSE MulPow10(<<1>>, b)

\* bigIntFloat for a non-nil balance, given by its decimal digits
bigIntFloat(balance, decimals) ==
  IF IsZero(balance) THEN FloatZero
  ELSE FloatQuo(FloatSetInt(FromDigits(balance)), FloatSetInt(bigPow10(decimals)))


\* bigIntString with a nil check that renders a missing balance as zero
bigIntString_NilAsZero(balance, decimals) ==
  IF balance.nil THEN Returned(<<48, 46, 48>>)
  ELSE clean(Sprintf(bigIntFloat(balance.abs, decimals), decimals))

\* bigIntString: balance.Sign() dereferences the pointer, so a nil balance
\* panics; otherwise the float is formatted with decimals fractional digits
\* and cleaned
bigIntString(balance, decimals) ==
  IF balance.nil THEN Panic
  ELSE clean(Sprintf(bigIntFloat(balance.abs, decimals), decimals))


(***************************************************************************)
(* Addresses and the well-known token table.  An address is its 20 bytes   *)
(* in lower-case hex; Address.String() is the mixed-case checksum form and *)
(* common.HexToAddress reads either case back.                             *)
(***************************************************************************)
EOSAddress == "86fa049857e0209aa7d9e616f7eb3b3b78ecfdb0"
OtherAddress == "0000000000000000000000000000000000000001"
WalletAddress == "0000000000000000000000000000000000000002"

Addresses == {EOSAddress, OtherAddress, WalletAddress}

AddressString(a) ==
  CASE a = EOSAddress -> "0x86Fa049857E0209aa7D9e616F7eb3b3B78ECfdb0"
    [] a = OtherAddress -> "0x0000000000000000000000000000000000000001"
    [] a = WalletAddress -> "0x0000000000000000000000000000000000000002"

HexToAddress(str) == CHOOSE a \in Addresses : AddressString(a) = str

\* the map literal that init_token_types assigns
TokenTypes == [sym \in {"EOS"} |-> "0x86Fa049857E0209aa7D9e616F7eb3b3B78ECfdb0"]

\* a nil map
NilMap == [sym \in {} |-> ""]

(***************************************************************************)
(* TokenBalance (balance.go) and its string accessors.                     *)
(***************************************************************************)
\* big.Int.Int64 of x, given by its decimal digits: the low 64 bits of x as a
\* two's complement number
Signed64(low) ==
  ToInt(ToDigits(IF Cmp(low, Shl(<<1>>, 63)) >= 0 THEN Sub(Shl(<<1>>, 64), low) ELSE low), 0)
  * (IF Cmp(low, Shl(<<1>>, 63)) >= 0 THEN -1 ELSE 1)

Int64Of(x) == Signed64(DivMod(FromDigits(x), Shl(<<1>>, 64)).r)

\* big.Int.String losing the trailing zeros of the number
BigIntText_Trimmed(x) ==
  IF x.nil THEN <<60, 110, 105, 108, 62>> ELSE TrimRightZeros(<<>> \o DigitBytes(x.abs))

\* big.Int.String: a nil pointer prints as "<nil>"
BigIntText(x) == IF x.nil THEN <<60, 110, 105, 108, 62>> ELSE <<>> \o DigitBytes(x.abs)

\* ETHString rendered with the token's own decimals count
ETHString_TokenDecimals(t) == bigIntString(t.ETH, t.Decimals)

ETHString(t) == bigIntString(t.ETH, 18)

\* BalanceString without its branch for Decimals = 0
BalanceString_NoZeroBranch(t) == bigIntString(t.Balance, t.Decimals)

BalanceString(t) ==
  IF t.Decimals = 0 THEN Returned(BigIntText(t.Balance))
  ELSE bigIntString(t.Balance, t.Decimals)

\* ToJSON: the fields of TokenBalanceJson in order; name and symbol carry
\* omitempty and are left out when they are the empty string
TokenBalanceJson(t, b, e) ==
  IF b.panic \/ e.panic THEN Panic
  ELSE Returned(<<<<"token", AddressString(t.Contract)>>,
                  <<"wallet", AddressString(t.Wallet)>>>>
                \o (IF t.Name = "" THEN <<>> ELSE <<<<"name", t.Name>>>>)
                \o (IF t.Symbol = "" THEN <<>> ELSE <<<<"symbol", t.Symbol>>>>)
                \o <<<<"balance", b.s>>, <<"eth_balance", e.s>>,
                     <<"decimals", t.Decimals>>, <<"block", t.Block>>>>)

ToJSON(t) == TokenBalanceJson(t, BalanceString(t), ETHString(t))


(***************************************************************************)
(* State.                                                                  *)
(*   token_list   the package-level symbol table (nil until assigned)      *)
(*   pc           where the current GetTokenBalance call stands            *)
(*   token_contract, account_wallet, blockNumber   the call's arguments    *)
(*   chain        what the node and the contract answer during the call    *)
(*   tb, err      the report under construction and the error returned     *)
(*   reads        the reads issued so far, in order                        *)
(*   out          the last string accessor called on the returned report   *)
(*   balance, decimals, rendered   a direct call of bigIntString           *)
(*   newNum       the argument of a direct call of clean                   *)
(***************************************************************************)
VARIABLES token_list, pc, token_contract, account_wallet, blockNumber, chain,
          tb, err, reads, out, balance, decimals, newNum, rendered,
          sendCall, infoCall

fetchVars == <<pc, token_contract, account_wallet, blockNumber, chain, tb, err, reads, out>>
renderVars == <<balance, decimals, newNum, rendered>>
nodeVars == <<sendCall, infoCall>>
vars == <<token_list, pc, token_contract, account_wallet, blockNumber, chain,
          tb, err, reads, out, balance, decimals, newNum, rendered,
          sendCall, infoCall>>

\* no SendAmount call and no GetInfo call under way
SendIdle ==
  [pc |-> "idle", fromPriv |-> "", toPub |-> "", amount |-> <<>>,
   gasPrice |-> [ok |-> FALSE, val |-> 0], nonce |-> [ok |-> FALSE, val |-> 0],
   sign |-> FALSE, send |-> FALSE,
   calls |-> <<>>, amountInt |-> <<0>>, signTx |-> <<>>, sent |-> <<>>, err |-> "nil"]

InfoIdle ==
  [pc |-> "idle",
   block |-> [ok |-> FALSE, val |-> <<>>],
   nodeInfo |-> [ok |-> FALSE, val |-> "nil"],
   adminPeers |-> [ok |-> FALSE, val |-> <<>>],
   calls |-> <<>>,
   resp |-> [NodeInfo |-> "nil", AdminPeers |-> [nil |-> TRUE, peers |-> <<>>],
             BlockNumber |-> <<>>],
   out |-> <<>>, err |-> "nil"]

\* the answers of the node and of the token contract
LatestHeight == <<9>>
RequestedHeight == <<7>>
Wei == <<1, 5>> \o Zeros(17)
Units == <<1, 5>> \o Zeros(17)

Failed(v) == [ok |-> FALSE, val |-> v]
Ok(v) == [ok |-> TRUE, val |-> v]

DecimalsAnswers ==
  {Failed(NilInt)} \cup {Ok(BigInt(v)) : v \in {<<0>>, <<1, 8>>, ToDigits(Shl(<<1>>, 64))}}
\* a failed BalanceAt returns an error together with whatever pointer the
\* client library hands back: nil, or a zero-valued number
BalanceAtAnswers ==
  {Failed(NilInt), Failed(BigInt(<<0>>))} \cup {Ok(BigInt(v)) : v \in {<<0>>, Wei}}
BalanceOfAnswers == {Failed(NilInt), Ok(BigInt(Units))}
SymbolAnswers == {Failed(""), Ok("TKN")}
NameAnswers == {Failed(""), Ok("Token")}

NoChain ==
  [caller |-> TRUE, block |-> TRUE, decimals |-> Failed(NilInt),
   balanceAt |-> Failed(NilInt), balanceOf |-> Failed(NilInt),
   symbol |-> Failed(""), name |-> Failed("")]

\* every combination of answers of the five reads behind a block read that
\* succeeds; a failing newTokenCaller or block read with one combination each
\* of all reads failing and of all reads succeeding
Chains ==
  [caller : {TRUE}, block : {TRUE}, decimals : DecimalsAnswers,
   balanceAt : BalanceAtAnswers, balanceOf : BalanceOfAnswers,
   symbol : SymbolAnswers, name : NameAnswers]
  \cup {[c EXCEPT !.caller = k, !.block = b] :
          c \in {NoChain,
                 [NoChain EXCEPT !.decimals = Ok(BigInt(<<1, 8>>)),
                                 !.balanceAt = Ok(BigInt(Wei)),
                                 !.balanceOf = Ok(BigInt(Units)),
                                 !.symbol = Ok("TKN"), !.name = Ok("Token")]},
          k \in BOOLEAN, b \in BOOLEAN}

\* the zero value of TokenBalance
ZeroTokenBalance ==
  [Contract |-> OtherAddress, Wallet |-> OtherAddress, Name |-> "", Symbol |-> "",
   Balance |-> NilInt, ETH |-> NilInt, Decimals |-> 0, Block |-> 0,
   InternalUserId |-> 0]

NoOut == [op |-> "none", res |-> Returned(<<>>)]

\* hexutil.EncodeBig of a small number: "0x" and its hexadecimal digits
RECURSIVE HexDigits(_)
HexDigits(n) ==
  IF n < 16 THEN <<IF n < 10 THEN 48 + n ELSE 87 + n>>
  ELSE HexDigits(n \div 16) \o HexDigits(n % 16)

EncodeBig(abs) == <<48, 120>> \o HexDigits(ToInt(abs, 0))

\* the block parameter of the request: "latest" for a nil number
Latest == <<108, 97, 116, 101, 115, 116>>

toBlockNumArg(number) == IF number.nil THEN Latest ELSE EncodeBig(number.abs)

\* the number a hexadecimal quantity stands for
RECURSIVE DecodeHex(_, _)
DecodeHex(bytes, acc) ==
  IF bytes = <<>> THEN acc
  ELSE DecodeHex(Tail(bytes),
                 16 * acc + (IF Head(bytes) < 58 THEN Head(bytes) - 48 ELSE Head(bytes) - 87))

\* block.Number() of the block the node returns for a block parameter
BlockNumber(arg) ==
  IF arg = Latest THEN LatestHeight
  ELSE NatDigits(DecodeHex(SubSeq(arg, 3, Len(arg)), 0))

symbolFix(contract) ==
  LET hits == {sym \in DOMAIN token_list :
                 AddressString(HexToAddress(contract)) = token_list[sym]}
  IN  IF hits = {} THEN "MISSING" ELSE CHOOSE sym \in hits : TRUE

Read(op, at) == [op |-> op, at |-> at]

Init ==
  /\ token_list = NilMap
  /\ pc = "idle"
  /\ token_contract = OtherAddress
  /\ account_wallet = OtherAddress
  /\ blockNumber = NilInt
  /\ chain = NoChain
  /\ tb = ZeroTokenBalance
  /\ err = "nil"
  /\ reads = <<>>
  /\ out = NoOut
  /\ balance = NilInt
  /\ decimals = 0
  /\ newNum = <<>>
  /\ rendered = NoOut
  /\ sendCall = SendIdle
  /\ infoCall = InfoIdle

\* init_token_types, lines 16-20: assigns the table.  The package has no call
\* of it; a caller inside the package may run it between two queries.
init_token_types ==
  /\ pc = "idle"
  /\ token_list' = TokenTypes
  /\ UNCHANGED <<fetchVars, renderVars, nodeVars>>

\* GetTokenBalance, lines 773-781: the call and the fresh report
Call(c, w, b, ch) ==
  /\ pc = "idle"
  /\ pc' = "newTokenCaller"
  /\ token_contract' = c
  /\ account_wallet' = w
  /\ blockNumber' = b
  /\ chain' = ch
  /\ tb' = [ZeroTokenBalance EXCEPT !.Wallet = w, !.Contract = c,
                                    !.InternalUserId = -1, !.Decimals = -1]
  /\ err' = "nil"
  /\ reads' = <<>>
  /\ out' = NoOut
  /\ UNCHANGED <<token_list, renderVars, nodeVars>>

\* the heights a caller asks for: none, or a block below the head
BlockNumbers == {NilInt, BigInt(RequestedHeight)}

GetTokenBalance ==
  \E c \in {EOSAddress, OtherAddress}, b \in BlockNumbers, ch \in Chains :
    Call(c, WalletAddress, b, ch)

\* GetTokenBalanceLatest passing the requested height on
GetTokenBalanceLatest_AtRequested ==
  \E c \in {EOSAddress, OtherAddress}, ch \in Chains :
    Call(c, WalletAddress, BigInt(RequestedHeight), ch)

\* lines 770-772: GetTokenBalance with a nil blockNumber
GetTokenBalanceLatest ==
  \E c \in {EOSAddress, OtherAddress}, ch \in Chains : Call(c, WalletAddress, NilInt, ch)

\* return tb, e
Return(e) == pc' = "returned" /\ err' = e

\* lines 782-787
NewTokenCallerStep ==
  /\ pc = "newTokenCaller"
  /\ IF chain.caller
     THEN pc' = "BlockByNumber" /\ UNCHANGED err
     ELSE Return("newTokenCaller")
  /\ UNCHANGED <<token_list, token_contract, account_wallet, blockNumber, chain, tb,
                 reads, out, renderVars, nodeVars>>

\* the block read with its error ignored: the call goes on to the contract
BlockByNumberStep_ErrorIgnored ==
  /\ pc = "BlockByNumber"
  /\ reads' = Append(reads, Read("BlockByNumber", blockNumber))
  /\ tb' = [tb EXCEPT !.Block =
               IF chain.block
               THEN Int64Of(BlockNumber(toBlockNumArg(blockNumber)))
               ELSE 0]
  /\ pc' = "Decimals"
  /\ UNCHANGED <<token_list, token_contract, account_wallet, blockNumber, chain, err,
                 out, renderVars, nodeVars>>

\* lines 789-795: the block read at blockNumber (nil is "latest")
BlockByNumberStep ==
  /\ pc = "BlockByNumber"
  /\ reads' = Append(reads, Read("BlockByNumber", blockNumber))
  /\ IF chain.block
     THEN /\ tb' = [tb EXCEPT !.Block =
                       Int64Of(BlockNumber(toBlockNumArg(blockNumber)))]
          /\ pc' = "Decimals"
          /\ UNCHANGED err
     ELSE Return("BlockByNumber") /\ UNCHANGED tb
  /\ UNCHANGED <<token_list, token_contract, account_wallet, blockNumber, chain, out,
                 renderVars, nodeVars>>

\* lines 797-803
DecimalsStep ==
  /\ pc = "Decimals"
  /\ reads' = Append(reads, Read("Decimals", NilInt))
  /\ IF chain.decimals.ok
     THEN /\ tb' = [tb EXCEPT !.Decimals = Int64Of(chain.decimals.val.abs)]
          /\ pc' = "BalanceAt"
          /\ UNCHANGED err
     ELSE Return("Decimals") /\ UNCHANGED tb
  /\ UNCHANGED <<token_list, token_contract, account_wallet, blockNumber, chain, out,
                 renderVars, nodeVars>>

\* lines 805-809: tb.ETH takes what BalanceAt returned, error or not
BalanceAtStep ==
  /\ pc = "BalanceAt"
  /\ reads' = Append(reads, Read("BalanceAt", NilInt))
  /\ tb' = [tb EXCEPT !.ETH = chain.balanceAt.val]
  /\ pc' = "BalanceOf"
  /\ UNCHANGED <<token_list, token_contract, account_wallet, blockNumber, chain, err,
                 out, renderVars, nodeVars>>

\* the token-balance read without the default on failure
BalanceOfStep_NoDefault ==
  /\ pc = "BalanceOf"
  /\ reads' = Append(reads, Read("BalanceOf", NilInt))
  /\ tb' = [tb EXCEPT !.Balance = chain.balanceOf.val]
  /\ pc' = "Symbol"
  /\ UNCHANGED <<token_list, token_contract, account_wallet, blockNumber, chain, err,
                 out, renderVars, nodeVars>>

\* lines 811-816
BalanceOfStep ==
  /\ pc = "BalanceOf"
  /\ reads' = Append(reads, Read("BalanceOf", NilInt))
  /\ tb' = [tb EXCEPT !.Balance =
              IF chain.balanceOf.ok THEN chain.balanceOf.val ELSE BigInt(<<0>>)]
  /\ pc' = "Symbol"
  /\ UNCHANGED <<token_list, token_contract, account_wallet, blockNumber, chain, err,
                 out, renderVars, nodeVars>>

\* lines 818-823
SymbolStep ==
  /\ pc = "Symbol"
  /\ reads' = Append(reads, Read("Symbol", NilInt))
  /\ tb' = [tb EXCEPT !.Symbol =
              IF chain.symbol.ok THEN chain.symbol.val
              ELSE symbolFix(AddressString(tb.Contract))]
  /\ pc' = "Name"
  /\ UNCHANGED <<token_list, token_contract, account_wallet, blockNumber, chain, err,
                 out, renderVars, nodeVars>>

\* the name read issued a second time when the first one failed
NameStep_RetryOnce ==
  /\ pc = "Name"
  /\ reads' = Append(reads, Read("Name", NilInt))
  /\ IF ~chain.name.ok /\ ~(\E i \in 1..Len(reads) : reads[i].op = "Name")
     THEN UNCHANGED <<pc, tb, err>>
     ELSE /\ tb' = [tb EXCEPT !.Name = IF chain.name.ok THEN chain.name.val ELSE "MISSING"]
          /\ Return("nil")
  /\ UNCHANGED <<token_list, token_contract, account_wallet, blockNumber, chain, out,
                 renderVars, nodeVars>>

\* the name read falling back to the symbol table, as the symbol read does
NameStep_TableFallback ==
  /\ pc = "Name"
  /\ reads' = Append(reads, Read("Name", NilInt))
  /\ tb' = [tb EXCEPT !.Name =
              IF chain.name.ok THEN chain.name.val
              ELSE symbolFix(AddressString(tb.Contract))]
  /\ Return("nil")
  /\ UNCHANGED <<token_list, token_contract, account_wallet, blockNumber, chain, out,
                 renderVars, nodeVars>>

\* lines 825-832
NameStep ==
  /\ pc = "Name"
  /\ reads' = Append(reads, Read("Name", NilInt))
  /\ tb' = [tb EXCEPT !.Name = IF chain.name.ok THEN chain.name.val ELSE "MISSING"]
  /\ Return("nil")
  /\ UNCHANGED <<token_list, token_contract, account_wallet, blockNumber, chain, out,
                 renderVars, nodeVars>>

\* the caller's use of the returned report
CallETHString ==
  /\ pc = "returned"
  /\ out' = [op |-> "ETHString", res |-> ETHString(tb)]
  /\ UNCHANGED <<token_list, pc, token_contract, account_wallet, blockNumber, chain, tb,
                 err, reads, renderVars, nodeVars>>

\* BalanceString dividing the report's own Balance instead of a copy
CallBalanceString_InPlace ==
  /\ pc = "returned"
  /\ out' = [op |-> "BalanceString", res |-> BalanceString(tb)]
  /\ tb' = [tb EXCEPT !.Balance = IF tb.Balance.nil THEN NilInt ELSE BigInt(<<0>>)]
  /\ UNCHANGED <<token_list, pc, token_contract, account_wallet, blockNumber, chain,
                 err, reads, renderVars, nodeVars>>

CallBalanceString ==
  /\ pc = "returned"
  /\ out' = [op |-> "BalanceString", res |-> BalanceString(tb)]
  /\ UNCHANGED <<token_list, pc, token_contract, account_wallet, blockNumber, chain, tb,
                 err, reads, renderVars, nodeVars>>

CallToJSON ==
  /\ pc = "returned"
  /\ out' = [op |-> "ToJSON", res |-> ToJSON(tb)]
  /\ UNCHANGED <<token_list, pc, token_contract, account_wallet, blockNumber, chain, tb,
                 err, reads, renderVars, nodeVars>>

\* the caller drops the report; the next query starts afresh
Release ==
  /\ pc = "returned"
  /\ pc' = "idle"
  /\ token_contract' = OtherAddress
  /\ account_wallet' = OtherAddress
  /\ blockNumber' = NilInt
  /\ chain' = NoChain
  /\ tb' = ZeroTokenBalance
  /\ err' = "nil"
  /\ reads' = <<>>
  /\ out' = NoOut
  /\ UNCHANGED <<token_list, renderVars, nodeVars>>

Next ==
  \/ init_token_types
  \/ GetTokenBalance
  \/ GetTokenBalanceLatest
  \/ NewTokenCallerStep
  \/ BlockByNumberStep
  \/ DecimalsStep
  \/ BalanceAtStep
  \/ BalanceOfStep
  \/ SymbolStep
  \/ NameStep
  \/ CallETHString
  \/ CallBalanceString
  \/ CallToJSON
  \/ Release

Spec == Init /\ [][Next]_vars


(***************************************************************************)
(* The decimal renderer on its own: bigIntString applied to a balance and  *)
(* a decimals count drawn from the sets below.                             *)
(***************************************************************************)
MaxRaw == 20
MaxDecimals == 2

\* a hundred, balances of nineteen digits, the first integer that 53 bits
\* cannot hold, and 2363 tokens of 18 decimals
LargeRaws ==
  {<<1, 0, 0>>, Units, <<1>> \o Zeros(18), <<1>> \o Zeros(17) \o <<1>>,
   ToDigits(Inc(MantMax)), <<2, 3, 6, 3>> \o Zeros(18)}

RenderBalances ==
  {NilInt} \cup {BigInt(NatDigits(n)) : n \in 0..MaxRaw} \cup {BigInt(v) : v \in LargeRaws}

RenderDecimals == ((0 - MaxDecimals)..MaxDecimals) \cup {18}

RenderInit ==
  /\ token_list = NilMap
  /\ pc = "idle"
  /\ token_contract = OtherAddress
  /\ account_wallet = OtherAddress
  /\ blockNumber = NilInt
  /\ chain = NoChain
  /\ tb = ZeroTokenBalance
  /\ err = "nil"
  /\ reads = <<>>
  /\ out = NoOut
  /\ balance \in RenderBalances
  /\ decimals \in RenderDecimals
  /\ newNum = <<>>
  /\ rendered = NoOut
  /\ sendCall = SendIdle
  /\ infoCall = InfoIdle

\* one call of bigIntString(balance, decimals)
CallBigIntString ==
  /\ rendered.op = "none"
  /\ rendered' = [op |-> "bigIntString", res |-> bigIntString(balance, decimals)]
  /\ UNCHANGED <<token_list, fetchVars, balance, decimals, newNum, nodeVars>>

\* a report whose token balance and native balance are balance and whose
\* Decimals is decimals
RenderReport ==
  [ZeroTokenBalance EXCEPT !.Balance = balance, !.ETH = balance, !.Decimals = decimals]

\* one call of an accessor on that report
ReportBalanceString ==
  /\ rendered.op = "none"
  /\ rendered' = [op |-> "BalanceString", res |-> BalanceString(RenderReport)]
  /\ UNCHANGED <<token_list, fetchVars, balance, decimals, newNum, nodeVars>>

ReportETHString ==
  /\ rendered.op = "none"
  /\ rendered' = [op |-> "ETHString", res |-> ETHString(RenderReport)]
  /\ UNCHANGED <<token_list, fetchVars, balance, decimals, newNum, nodeVars>>

ReportToJSON ==
  /\ rendered.op = "none"
  /\ rendered' = [op |-> "ToJSON", res |-> ToJSON(RenderReport)]
  /\ UNCHANGED <<token_list, fetchVars, balance, decimals, newNum, nodeVars>>

RenderNext ==
  \/ CallBigIntString
  \/ ReportBalanceString
  \/ ReportETHString
  \/ ReportToJSON

RenderSpec == RenderInit /\ [][RenderNext]_vars


(***************************************************************************)
(* clean on its own, applied to every byte string of '.', '0' and '1' up   *)
(* to MaxLen bytes.                                                        *)
(***************************************************************************)
MaxLen == 4

CleanBytes == {46, 48, 49}

CleanInputs == UNION {[1..n -> CleanBytes] : n \in 0..MaxLen}

CleanInit ==
  /\ token_list = NilMap
  /\ pc = "idle"
  /\ token_contract = OtherAddress
  /\ account_wallet = OtherAddress
  /\ blockNumber = NilInt
  /\ chain = NoChain
  /\ tb = ZeroTokenBalance
  /\ err = "nil"
  /\ reads = <<>>
  /\ out = NoOut
  /\ balance = NilInt
  /\ decimals = 0
  /\ newNum \in CleanInputs
  /\ rendered = NoOut
  /\ sendCall = SendIdle
  /\ infoCall = InfoIdle

\* one call of clean(newNum)
CallClean ==
  /\ rendered.op = "none"
  /\ rendered' = [op |-> "clean", res |-> clean(newNum)]
  /\ UNCHANGED <<token_list, fetchVars, balance, decimals, newNum, nodeVars>>

CleanNext == CallClean

CleanSpec == CleanInit /\ [][CleanNext]_vars

(***************************************************************************)
(* SendAmount (client.go 694-733).  sendCall holds the arguments of the    *)
(* call under way, the answers the node and the signer give during it, the *)
(* calls made so far, the values computed, the transaction signed, the     *)
(* transactions submitted and the error returned.                          *)
(***************************************************************************)
\* a well-formed private key in hex with the address of its public key, and a
\* string that is not a key
ValidPriv == "b71c71a67e1177ad4e901695e1b4b9ee17ae16c6668d313eac2f96dbcda3f291"
BadPriv == "xyz"
PrivateKeys == {ValidPriv, BadPriv}

\* crypto.HexToECDSA: the key, or an error for a string that is not one
HexToECDSA(fromPriv) == [ok |-> fromPriv = ValidPriv, val |-> fromPriv]

\* crypto.PubkeyToAddress of the key's public key
PubkeyToAddress(key) == WalletAddress

\* the amounts a caller passes: "15", "07" and "1x"
AmountStrings == {<<49, 53>>, <<48, 55>>, <<49, 120>>}

\* big.Int.SetString(amount, 10): the number, or failure for a string that is
\* not a decimal number
SetString(amount) ==
  IF amount # <<>> /\ \A i \in 1..Len(amount) : amount[i] \in 48..57
  THEN Ok(Norm([i \in 1..Len(amount) |-> amount[i] - 48]))
  ELSE Failed(<<0>>)

\* the value of amountInt after a SetString that failed is undefined
UndefinedAmounts == {<<0>>, <<1>>}

GasLimit == 21000

GasPriceAnswers == {[ok |-> FALSE, val |-> 0], [ok |-> TRUE, val |-> 20]}
NonceAnswers == {[ok |-> FALSE, val |-> 0], [ok |-> TRUE, val |-> 3]}

SendReturn(s, e) == [s EXCEPT !.pc = "returned", !.err = e]

SendStep(s, call) == [s EXCEPT !.calls = Append(s.calls, call)]

\* line 694: the call
SendAmount ==
  \E fromPriv \in PrivateKeys, to \in {OtherAddress, EOSAddress},
     amount \in AmountStrings, g \in GasPriceAnswers, n \in NonceAnswers,
     sg \in BOOLEAN, sd \in BOOLEAN :
    /\ sendCall.pc = "idle"
    /\ sendCall' = [SendIdle EXCEPT !.pc = "HexToECDSA", !.fromPriv = fromPriv,
                                    !.toPub = AddressString(to), !.amount = amount,
                                    !.gasPrice = g, !.nonce = n, !.sign = sg,
                                    !.send = sd]
    /\ UNCHANGED <<token_list, fetchVars, renderVars, infoCall>>

\* lines 695-698
HexToECDSAStep ==
  /\ sendCall.pc = "HexToECDSA"
  /\ sendCall' =
       IF HexToECDSA(sendCall.fromPriv).ok
       THEN [SendStep(sendCall, "HexToECDSA") EXCEPT !.pc = "privateKeyToPubAddress"]
       ELSE SendReturn(SendStep(sendCall, "HexToECDSA"), "HexToECDSA")
  /\ UNCHANGED <<token_list, fetchVars, renderVars, infoCall>>

\* lines 700-709: the sender's address (the cast of the public key of an
\* ecdsa.PrivateKey cannot fail), the receiver's address and the amount, whose
\* parse result is not looked at
PubAddressStep ==
  /\ sendCall.pc = "privateKeyToPubAddress"
  /\ \E v \in (IF SetString(sendCall.amount).ok THEN {SetString(sendCall.amount).val}
               ELSE UndefinedAmounts) :
       sendCall' = [SendStep(sendCall, "privateKeyToPubAddress") EXCEPT
                      !.pc = "SuggestGasPrice", !.amountInt = v]
  /\ UNCHANGED <<token_list, fetchVars, renderVars, infoCall>>

\* lines 711-715
SuggestGasPriceStep ==
  /\ sendCall.pc = "SuggestGasPrice"
  /\ sendCall' =
       IF sendCall.gasPrice.ok
       THEN [SendStep(sendCall, "SuggestGasPrice") EXCEPT !.pc = "PendingNonceAt"]
       ELSE SendReturn(SendStep(sendCall, "SuggestGasPrice"), "SuggestGasPrice")
  /\ UNCHANGED <<token_list, fetchVars, renderVars, infoCall>>

\* the nonce lookup with its error ignored
PendingNonceAtStep_ErrorIgnored ==
  /\ sendCall.pc = "PendingNonceAt"
  /\ sendCall' = [SendStep(sendCall, "PendingNonceAt") EXCEPT !.pc = "SignTx"]
  /\ UNCHANGED <<token_list, fetchVars, renderVars, infoCall>>

\* lines 717-721
PendingNonceAtStep ==
  /\ sendCall.pc = "PendingNonceAt"
  /\ sendCall' =
       IF sendCall.nonce.ok
       THEN [SendStep(sendCall, "PendingNonceAt") EXCEPT !.pc = "SignTx"]
       ELSE SendReturn(SendStep(sendCall, "PendingNonceAt"), "PendingNonceAt")
  /\ UNCHANGED <<token_list, fetchVars, renderVars, infoCall>>

\* types.NewTransaction, lines 724-725
NewTransaction(nonce, to, amount, gasLimit, gasPrice) ==
  [nonce |-> nonce, to |-> to, amount |-> amount, gasLimit |-> gasLimit,
   gasPrice |-> gasPrice]

\* types.SignTx: the transaction with the signature of the key's address
SignTx(tx, key) == [tx |-> tx, signer |-> PubkeyToAddress(key)]

\* lines 723-730: the transaction is built and signed with the sender's key
SignTxStep ==
  /\ sendCall.pc = "SignTx"
  /\ sendCall' =
       IF sendCall.sign
       THEN [SendStep(sendCall, "SignTx") EXCEPT
               !.pc = "SendTransaction",
               !.signTx = <<SignTx(NewTransaction(sendCall.nonce.val,
                                                  HexToAddress(sendCall.toPub),
                                                  sendCall.amountInt, GasLimit,
                                                  sendCall.gasPrice.val),
                                   HexToECDSA(sendCall.fromPriv).val)>>]
       ELSE SendReturn(SendStep(sendCall, "SignTx"), "SignTx")
  /\ UNCHANGED <<token_list, fetchVars, renderVars, infoCall>>

\* line 732: the signed transaction is submitted and the node's answer returned
SendTransactionStep ==
  /\ sendCall.pc = "SendTransaction"
  /\ sendCall' =
       SendReturn([SendStep(sendCall, "SendTransaction") EXCEPT
                     !.sent = Append(sendCall.sent, sendCall.signTx[1])],
                  IF sendCall.send THEN "nil" ELSE "SendTransaction")
  /\ UNCHANGED <<token_list, fetchVars, renderVars, infoCall>>

\* the caller has the result; the next call starts afresh
SendRelease ==
  /\ sendCall.pc = "returned"
  /\ sendCall' = SendIdle
  /\ UNCHANGED <<token_list, fetchVars, renderVars, infoCall>>

SendNext ==
  \/ SendAmount
  \/ HexToECDSAStep
  \/ PubAddressStep
  \/ SuggestGasPriceStep
  \/ PendingNonceAtStep
  \/ SignTxStep
  \/ SendTransactionStep
  \/ SendRelease

SendSpec == Init /\ [][SendNext]_vars

(***************************************************************************)
(* GetInfo (client.go 649-673).  infoCall holds the answers the node gives *)
(* during the call under way, the reads made so far, the info value being  *)
(* filled, and the string and the error returned.                          *)
(***************************************************************************)
\* what the node answers to eth_blockNumber: an error, "0x9", "0x1a", and
\* the strings "9" and "0x09", which are not hexadecimal quantities
BlockNumberAnswers ==
  {Failed(<<>>), Ok(<<48, 120, 57>>), Ok(<<48, 120, 49, 97>>), Ok(<<57>>),
   Ok(<<48, 120, 48, 57>>)}

\* admin_nodeInfo: an error, null, or a node; admin_peers: an error, no peer,
\* or one peer
NodeInfoAnswers == {Failed("nil"), Ok("nil"), Ok("enode-a")}
AdminPeersAnswers ==
  {Failed([nil |-> TRUE, peers |-> <<>>]), Ok([nil |-> FALSE, peers |-> <<>>]),
   Ok([nil |-> FALSE, peers |-> <<"enode-b">>])}

\* the value of a hexadecimal digit, -1 for any other byte
DecodeNibble(b) ==
  IF b \in 48..57 THEN b - 48
  ELSE IF b \in 97..102 THEN b - 87
  ELSE IF b \in 65..70 THEN b - 55
  ELSE -1

RECURSIVE NibblesValue(_, _)
NibblesValue(bytes, acc) ==
  IF bytes = <<>> THEN acc
  ELSE NibblesValue(Tail(bytes), 16 * acc + DecodeNibble(Head(bytes)))

\* hexutil.DecodeBig: "0x" followed by hexadecimal digits without a leading
\* zero
DecodeBig(input) ==
  IF /\ Len(input) >= 3
     /\ input[1] = 48 /\ input[2] \in {120, 88}
     /\ (Len(input) = 3 \/ input[3] # 48)
     /\ \A i \in 3..Len(input) : DecodeNibble(input[i]) >= 0
  THEN Ok(BigInt(NatDigits(NibblesValue(SubSeq(input, 3, Len(input)), 0))))
  ELSE Failed(NilInt)

\* ClientTokenEth.BlockNumber, lines 560-568
BlockNumberRead(answer) == IF answer.ok THEN DecodeBig(answer.val) ELSE Failed(NilInt)

\* json.Marshal of the info value: a nil pointer and a nil slice are null
MarshalInfo(resp) ==
  <<<<"nodeInfo", IF resp.NodeInfo = "nil" THEN "null" ELSE resp.NodeInfo>>,
    <<"adminPeers", [null |-> resp.AdminPeers.nil, items |-> resp.AdminPeers.peers]>>,
    <<"blockNumber", resp.BlockNumber>>>>

InfoStep(s, call) == [s EXCEPT !.calls = Append(s.calls, call)]

\* line 649: the call
GetInfo ==
  \E b \in BlockNumberAnswers, ni \in NodeInfoAnswers, ap \in AdminPeersAnswers :
    /\ infoCall.pc = "idle"
    /\ infoCall' = [InfoIdle EXCEPT !.pc = "BlockNumber", !.block = b,
                                    !.nodeInfo = ni, !.adminPeers = ap]
    /\ UNCHANGED <<token_list, fetchVars, renderVars, sendCall>>

\* lines 655-659
BlockNumberStep ==
  /\ infoCall.pc = "BlockNumber"
  /\ infoCall' =
       IF BlockNumberRead(infoCall.block).ok
       THEN [InfoStep(infoCall, "BlockNumber") EXCEPT
               !.pc = "NodeInfo",
               !.resp.BlockNumber = BigIntText(BlockNumberRead(infoCall.block).val)]
       ELSE [InfoStep(infoCall, "BlockNumber") EXCEPT
               !.pc = "returned", !.out = <<>>, !.err = "BlockNumber"]
  /\ UNCHANGED <<token_list, fetchVars, renderVars, sendCall>>

\* GetInfo giving up when the NodeInfo read fails
NodeInfoStep_ReturnsError ==
  /\ infoCall.pc = "NodeInfo"
  /\ infoCall' =
       IF infoCall.nodeInfo.ok
       THEN [InfoStep(infoCall, "NodeInfo") EXCEPT
               !.pc = "AdminPeers", !.resp.NodeInfo = infoCall.nodeInfo.val]
       ELSE [InfoStep(infoCall, "NodeInfo") EXCEPT
               !.pc = "returned", !.out = <<>>, !.err = "NodeInfo"]
  /\ UNCHANGED <<token_list, fetchVars, renderVars, sendCall>>

\* lines 661-664: the field is set only when the read succeeded
NodeInfoStep ==
  /\ infoCall.pc = "NodeInfo"
  /\ infoCall' =
       [InfoStep(infoCall, "NodeInfo") EXCEPT
          !.pc = "AdminPeers",
          !.resp.NodeInfo = IF infoCall.nodeInfo.ok THEN infoCall.nodeInfo.val
                            ELSE infoCall.resp.NodeInfo]
  /\ UNCHANGED <<token_list, fetchVars, renderVars, sendCall>>

\* lines 666-669
AdminPeersStep ==
  /\ infoCall.pc = "AdminPeers"
  /\ infoCall' =
       [InfoStep(infoCall, "AdminPeers") EXCEPT
          !.pc = "Marshal",
          !.resp.AdminPeers = IF infoCall.adminPeers.ok THEN infoCall.adminPeers.val
                              ELSE infoCall.resp.AdminPeers]
  /\ UNCHANGED <<token_list, fetchVars, renderVars, sendCall>>

\* lines 671-672: values decoded from JSON marshal without error
MarshalStep ==
  /\ infoCall.pc = "Marshal"
  /\ infoCall' = [infoCall EXCEPT !.pc = "returned", !.out = MarshalInfo(infoCall.resp),
                                  !.err = "nil"]
  /\ UNCHANGED <<token_list, fetchVars, renderVars, sendCall>>

\* the caller has the result; the next call starts afresh
InfoRelease ==
  /\ infoCall.pc = "returned"
  /\ infoCall' = InfoIdle
  /\ UNCHANGED <<token_list, fetchVars, renderVars, sendCall>>

InfoNext ==
  \/ GetInfo
  \/ BlockNumberStep
  \/ NodeInfoStep
  \/ AdminPeersStep
  \/ MarshalStep
  \/ InfoRelease

InfoSpec == Init /\ [][InfoNext]_vars

(***************************************************************************)
(* Properties of GetTokenBalance (specification Spec).  chain holds the    *)
(* answers the current call meets, reads the reads it has issued.          *)
(***************************************************************************)
\* the operations read so far, in order
ReadOps == [i \in 1..Len(reads) |-> reads[i].op]

\* the read op has been issued in the current call
Issued(op) == \E i \in 1..Len(reads) : reads[i].op = op

\* C1: when the anchor block read fails, GetTokenBalance returns an error and
\* the report handed back cannot be rendered: ToJSON, BalanceString and
\* ETHString all fail on it instead of returning a string.
C1_AnchorFailureNoUsableReport ==
  (pc = "returned" /\ Issued("BlockByNumber") /\ ~chain.block) =>
    /\ err = "BlockByNumber"
    /\ ToJSON(tb).panic
    /\ BalanceString(tb).panic
    /\ ETHString(tb).panic
    /\ (out.op # "none" => out.res.panic)

C1_Witness ==
  /\ pc = "returned"
  /\ ReadOps = <<"BlockByNumber">>
  /\ ~chain.block
  /\ err = "BlockByNumber"
  /\ out.op = "ToJSON"
  /\ out.res.panic

\* C2: GetTokenBalance returns a non-nil error if and only if the anchor block
\* read failed; a failure of the decimals, native-balance, token-balance,
\* symbol or name read never makes it return an error.
C2_ErrorIffAnchorFailed ==
  (pc = "returned" /\ chain.caller) => ((err # "nil") <=> ~chain.block)

\* C3: with a failing decimals read and succeeding anchor, token-balance,
\* symbol and name reads, the report has Decimals = -1 while Balance, Symbol
\* and Name hold what their reads returned.
C3_DecimalsFailureKeepsOtherFields ==
  (/\ pc = "returned"
   /\ chain.caller /\ chain.block
   /\ ~chain.decimals.ok
   /\ chain.balanceOf.ok /\ chain.symbol.ok /\ chain.name.ok) =>
    /\ tb.Decimals = -1
    /\ tb.Balance = chain.balanceOf.val
    /\ tb.Symbol = chain.symbol.val
    /\ tb.Name = chain.name.val

\* C5: when the symbol read fails, the report's Symbol is the symbol the
\* well-known token table gives for the contract address ("EOS" for
\* 0x86Fa049857E0209aa7D9e616F7eb3b3B78ECfdb0), and "MISSING" for an address
\* the table does not hold.
C5_SymbolFallback ==
  (pc = "returned" /\ Issued("Symbol") /\ ~chain.symbol.ok) =>
    tb.Symbol = (IF \E sym \in DOMAIN TokenTypes :
                      TokenTypes[sym] = AddressString(token_contract)
                 THEN CHOOSE sym \in DOMAIN TokenTypes :
                        TokenTypes[sym] = AddressString(token_contract)
                 ELSE "MISSING")

\* C6: when the token-balance read fails, Balance is the integer zero (set,
\* not nil), no error is recorded, and the call goes on to the symbol and
\* name reads before it returns.
C6_BalanceOfFailureDefaultsToZero ==
  (Issued("BalanceOf") /\ ~chain.balanceOf.ok) =>
    /\ tb.Balance = BigInt(<<0>>)
    /\ err = "nil"
    /\ pc \in {"Symbol", "Name", "returned"}
    /\ (pc = "Name" => Issued("Symbol"))
    /\ (pc = "returned" =>
          SubSeq(ReadOps, Len(reads) - 2, Len(reads)) = <<"BalanceOf", "Symbol", "Name">>)

C6_Witness ==
  /\ pc = "returned"
  /\ ~chain.balanceOf.ok
  /\ Issued("BalanceOf") /\ Issued("Symbol") /\ Issued("Name")
  /\ tb.Balance = BigInt(<<0>>)
  /\ out = [op |-> "BalanceString", res |-> Returned(<<48, 46, 48>>)]

\* C7: when the native-balance read fails, the report's ETH is left unset
\* (nil), so that a failed read differs from a successful read of zero.
C7_BalanceAtFailureLeavesETHUnset ==
  (pc = "returned" /\ Issued("BalanceAt") /\ ~chain.balanceAt.ok) => tb.ETH.nil

\* C8: when the name read fails, Name is the literal "MISSING" whatever the
\* symbol table holds, and GetTokenBalance returns a nil error.
C8_NameFailureIsMissing ==
  (pc = "returned" /\ Issued("Name") /\ ~chain.name.ok) =>
    (tb.Name = "MISSING" /\ err = "nil")

C8_Witness ==
  /\ pc = "returned"
  /\ Issued("Name")
  /\ ~chain.name.ok
  /\ token_list = TokenTypes
  /\ token_contract = EOSAddress
  /\ tb.Name = "MISSING"
  /\ err = "nil"

\* C9: in every report Decimals is -1 or the non-negative number a successful
\* decimals read returned; it is 0 only when that read returned 0.
C9_DecimalsIsReadValueOrSentinel ==
  pc = "returned" =>
    \/ tb.Decimals = -1
    \/ /\ Issued("Decimals")
       /\ chain.decimals.ok
       /\ tb.Decimals >= 0
       /\ NatDigits(tb.Decimals) = chain.decimals.val.abs

\* C10: before the anchor block read has succeeded no other read is issued
\* and Decimals, ETH, Balance, Symbol and Name keep their initial values;
\* when the anchor read fails the call returns with that one read issued.
C10_AnchorGatesEverything ==
  /\ (\/ pc \in {"newTokenCaller", "BlockByNumber"}
      \/ (pc = "returned" /\ err \in {"newTokenCaller", "BlockByNumber"})) =>
       /\ \A i \in 1..Len(reads) : reads[i].op = "BlockByNumber"
       /\ tb.Decimals = -1
       /\ tb.ETH.nil
       /\ tb.Balance.nil
       /\ tb.Symbol = ""
       /\ tb.Name = ""
  /\ (\E i \in 1..Len(reads) : reads[i].op # "BlockByNumber") =>
       (reads[1].op = "BlockByNumber" /\ chain.block)
  /\ (pc = "returned" /\ Issued("BlockByNumber") /\ ~chain.block) =>
       ReadOps = <<"BlockByNumber">>

C10_Witness ==
  /\ pc = "returned"
  /\ err = "BlockByNumber"
  /\ ~chain.block
  /\ ReadOps = <<"BlockByNumber">>
  /\ tb.Decimals = -1 /\ tb.ETH.nil /\ tb.Balance.nil


(***************************************************************************)
(* Properties of the decimal renderer (specification RenderSpec).          *)
(***************************************************************************)
\* the positions of the decimal point in the bytes s
Points(s) == {i \in 1..Len(s) : s[i] = 46}

\* the digits of s with the point at k taken out and the fraction padded with
\* zeros to d digits
Unpointed(s, k, d) ==
  [i \in 1..(k - 1) |-> s[i] - 48]
  \o [i \in 1..(Len(s) - k) |-> s[k + i] - 48]
  \o Zeros(d - (Len(s) - k))

\* C4: for a non-negative raw and d >= 1, bigIntString(raw, d) returns a
\* string with exactly one point whose digits, with the fraction padded back
\* to d digits and the point removed, are raw in base 10.
C4_RenderingIsExact ==
  (rendered.op = "bigIntString" /\ ~balance.nil /\ decimals >= 1) =>
    /\ ~rendered.res.panic
    /\ Cardinality(Points(rendered.res.s)) = 1
    /\ \A k \in Points(rendered.res.s) :
         /\ Len(rendered.res.s) - k <= decimals
         /\ Norm(Unpointed(rendered.res.s, k, decimals)) = balance.abs

(***************************************************************************)
(* Further properties of GetTokenBalance (specification Spec).             *)
(***************************************************************************)
\* C11: when a specific block height is requested, the native-balance read
\* and the token-balance read are made at that height, so that Block is the
\* height at which ETH and Balance were read.
C11_ReadsAtReportBlock ==
  (pc = "returned" /\ err = "nil" /\ ~blockNumber.nil) =>
    \A i \in 1..Len(reads) :
      reads[i].op \in {"BalanceAt", "BalanceOf"} => reads[i].at = blockNumber

(***************************************************************************)
(* Properties of the string accessors on a report built from a balance and *)
(* a decimals count (specification RenderSpec).                            *)
(***************************************************************************)
\* C12: the raw value 0 is rendered as "0.0" for every decimals count d >= 1
\* and as "0" for d = 0.
C12_ZeroRendering ==
  /\ (rendered.op = "BalanceString" /\ balance = BigInt(<<0>>) /\ decimals >= 0) =>
       rendered.res = Returned(IF decimals = 0 THEN <<48>> ELSE <<48, 46, 48>>)
  /\ (rendered.op = "bigIntString" /\ balance = BigInt(<<0>>) /\ decimals >= 1) =>
       rendered.res = Returned(<<48, 46, 48>>)

C12_Witness ==
  /\ rendered.op = "BalanceString"
  /\ balance = BigInt(<<0>>)
  /\ decimals = 0
  /\ rendered.res = Returned(<<48>>)

\* C13: with decimals = 0 every non-negative raw value is rendered as its
\* base-10 string, without a point and with every digit kept (10 and 100
\* keep their trailing zeros).
C13_ZeroDecimalsIsBase10 ==
  (rendered.op = "BalanceString" /\ ~balance.nil /\ decimals = 0) =>
    rendered.res = Returned(DigitBytes(balance.abs))

C13_Witness ==
  /\ rendered.op = "BalanceString"
  /\ balance = BigInt(<<1, 0, 0>>)
  /\ decimals = 0
  /\ rendered.res = Returned(<<49, 48, 48>>)

\* C14: a raw value that is an exact multiple N * 10^d, d >= 1, is rendered
\* as "<N>.0"; 1500000000000000000 at d = 18 is rendered as "1.5".
C14_ExactMultiples ==
  /\ (/\ rendered.op = "bigIntString"
      /\ ~balance.nil
      /\ decimals >= 1
      /\ Len(balance.abs) > decimals
      /\ \A i \in (Len(balance.abs) - decimals + 1)..Len(balance.abs) : balance.abs[i] = 0) =>
       rendered.res =
         Returned(DigitBytes(SubSeq(balance.abs, 1, Len(balance.abs) - decimals))
                  \o <<46, 48>>)
  /\ (rendered.op = "bigIntString" /\ balance = BigInt(Units) /\ decimals = 18) =>
       rendered.res = Returned(<<49, 46, 53>>)

\* C15: a string that clean returns neither starts nor ends with '.'.
C15_NoBarePoint ==
  (rendered.op = "clean" /\ ~rendered.res.panic) =>
    /\ rendered.res.s # <<>>
    /\ rendered.res.s[1] # 46
    /\ rendered.res.s[Len(rendered.res.s)] # 46

C15_Witness ==
  /\ rendered.op = "clean"
  /\ newNum = <<46, 48, 48>>
  /\ rendered.res = Returned(<<48, 46, 48>>)

\* C16: ToJSON leaves out the name field when Name is "MISSING" and the
\* symbol field when Symbol is "MISSING".
C16_MissingFieldsOmitted ==
  (out.op = "ToJSON" /\ ~out.res.panic) =>
    /\ tb.Name = "MISSING" =>
         \A i \in 1..Len(out.res.s) : out.res.s[i][1] # "name"
    /\ tb.Symbol = "MISSING" =>
         \A i \in 1..Len(out.res.s) : out.res.s[i][1] # "symbol"

\* C17: bigIntString called with a negative decimals count fails and returns
\* no string.
C17_NegativeDecimalsRejected ==
  (rendered.op = "bigIntString" /\ decimals < 0) => rendered.res.panic

\* C18: ETHString, and the eth_balance field of ToJSON, is the native balance
\* rendered with 18 decimals, whatever the Decimals field of the report is.
C18_NativeBalanceAt18 ==
  /\ rendered.op = "ETHString" => rendered.res = bigIntString(balance, 18)
  /\ (rendered.op = "ToJSON" /\ ~rendered.res.panic) =>
       /\ \E i \in 1..Len(rendered.res.s) : rendered.res.s[i][1] = "eth_balance"
       /\ \A i \in 1..Len(rendered.res.s) :
            rendered.res.s[i][1] = "eth_balance" =>
              Returned(rendered.res.s[i][2]) = bigIntString(balance, 18)

C18_Witness ==
  /\ rendered.op = "ETHString"
  /\ balance = BigInt(Units)
  /\ decimals = -1
  /\ rendered.res = Returned(<<49, 46, 53>>)

\* C19: a call of GetTokenBalanceLatest(contract, wallet) is a call of
\* GetTokenBalance(contract, wallet, nil), so that the same answers lead to the
\* same report and the same error; and a call with a nil height asks the node
\* for the block "latest" and reports the height of the head.
C19_LatestIsNilHeight ==
  /\ [][GetTokenBalanceLatest =>
          \E c \in {EOSAddress, OtherAddress}, ch \in Chains :
            Call(c, WalletAddress, NilInt, ch)]_vars
  /\ []((blockNumber.nil /\ Len(reads) >= 1) =>
          /\ reads[1].op = "BlockByNumber"
          /\ toBlockNumArg(reads[1].at) = Latest
          /\ (pc = "returned" /\ err = "nil") => tb.Block = Int64Of(LatestHeight))

C19_Witness ==
  /\ pc = "returned"
  /\ err = "nil"
  /\ blockNumber.nil
  /\ toBlockNumArg(reads[1].at) = Latest
  /\ tb.Block = 9

\* C20: a call whose anchor read succeeded has issued the five remaining
\* reads (decimals, native balance, token balance, symbol, name) when it
\* returns, whichever of them failed.
C20_AllReadsIssued ==
  (pc = "returned" /\ Issued("BlockByNumber") /\ chain.block) =>
    \A op \in {"Decimals", "BalanceAt", "BalanceOf", "Symbol", "Name"} : Issued(op)

(***************************************************************************)
(* The report of a whole call as a function of its arguments and of the    *)
(* answers it meets, for comparing two calls.                              *)
(***************************************************************************)
\* lines 773-833 run to their return statement
Report(c, w, b, ch) ==
  LET fresh == [ZeroTokenBalance EXCEPT !.Wallet = w, !.Contract = c,
                                        !.InternalUserId = -1, !.Decimals = -1]
  IN  IF ~ch.caller \/ ~ch.block THEN fresh
      ELSE IF ~ch.decimals.ok
      THEN [fresh EXCEPT !.Block = Int64Of(BlockNumber(toBlockNumArg(b)))]
      ELSE [fresh EXCEPT
              !.Block = Int64Of(BlockNumber(toBlockNumArg(b))),
              !.Decimals = Int64Of(ch.decimals.val.abs),
              !.ETH = ch.balanceAt.val,
              !.Balance = IF ch.balanceOf.ok THEN ch.balanceOf.val ELSE BigInt(<<0>>),
              !.Symbol = IF ch.symbol.ok THEN ch.symbol.val
                         ELSE symbolFix(AddressString(c)),
              !.Name = IF ch.name.ok THEN ch.name.val ELSE "MISSING"]

\* the report a call returns is Report of its arguments and answers
ReportIsReturned ==
  pc = "returned" => tb = Report(token_contract, account_wallet, blockNumber, chain)

\* the reads behind the anchor, the answers each can give and its report field
NonAnchorReads == {"decimals", "balanceAt", "balanceOf", "symbol", "name"}

ReadAnswers ==
  [decimals |-> DecimalsAnswers, balanceAt |-> BalanceAtAnswers,
   balanceOf |-> BalanceOfAnswers, symbol |-> SymbolAnswers, name |-> NameAnswers]

FieldOf ==
  [decimals |-> "Decimals", balanceAt |-> "ETH", balanceOf |-> "Balance",
   symbol |-> "Symbol", name |-> "Name"]

\* C21: two calls with the same arguments whose answers differ only in
\* whether one read behind the anchor fails return reports that agree on
\* every field that belongs to another read.
C21_ReadsIndependent ==
  (pc = "returned" /\ chain.caller /\ chain.block) =>
    \A r \in NonAnchorReads : \A a \in ReadAnswers[r] :
      a.ok # chain[r].ok =>
        \A q \in NonAnchorReads \ {r} :
          tb[FieldOf[q]] =
            Report(token_contract, account_wallet, blockNumber,
                   [chain EXCEPT ![r] = a])[FieldOf[q]]

\* C22: within one call of GetTokenBalance no read (anchor block, decimals,
\* native balance, token balance, symbol, name) is issued twice, whether it
\* failed or not.
C22_EachReadAtMostOnce ==
  \A i, j \in 1..Len(reads) : reads[i].op = reads[j].op => i = j

C22_Witness ==
  /\ pc = "returned"
  /\ err = "nil"
  /\ ~chain.balanceAt.ok /\ ~chain.balanceOf.ok /\ ~chain.symbol.ok /\ ~chain.name.ok
  /\ ReadOps = <<"BlockByNumber", "Decimals", "BalanceAt", "BalanceOf", "Symbol", "Name">>

\* C23: the symbol table has been populated whenever a fallback lookup
\* (symbolFix after a failed symbol read) has run.
C23_TablePopulatedBeforeLookup ==
  (Issued("Symbol") /\ ~chain.symbol.ok) => token_list = TokenTypes

\* C24: for a report whose Decimals is the sentinel -1, BalanceString and the
\* balance field of ToJSON are the base-10 text of the raw token balance.
C24_SentinelRendersRaw ==
  /\ (out.op = "BalanceString" /\ tb.Decimals = -1) =>
       out.res = Returned(BigIntText(tb.Balance))
  /\ (out.op = "ToJSON" /\ tb.Decimals = -1) =>
       /\ ~out.res.panic
       /\ \E i \in 1..Len(out.res.s) :
            out.res.s[i] = <<"balance", BigIntText(tb.Balance)>>

(***************************************************************************)
(* Further properties of the decimal renderer (specification RenderSpec).  *)
(***************************************************************************)
\* C25: for d >= 1 the fraction of the rendered string has at least one and
\* at most d digits and does not end in '0', unless it is the single digit
\* "0".
C25_FractionTrimmed ==
  (rendered.op \in {"bigIntString", "BalanceString"} /\ ~balance.nil /\ decimals >= 1) =>
    /\ ~rendered.res.panic
    /\ Cardinality(Points(rendered.res.s)) = 1
    /\ \A k \in Points(rendered.res.s) :
         /\ k < Len(rendered.res.s)
         /\ Len(rendered.res.s) - k <= decimals
         /\ \/ rendered.res.s[Len(rendered.res.s)] # 48
            \/ Len(rendered.res.s) - k = 1

C25_Witness ==
  /\ rendered.op = "bigIntString"
  /\ balance = BigInt(<<1, 0>>)
  /\ decimals = 2
  /\ rendered.res = Returned(<<48, 46, 49>>)

\* C30: clean returns a string for whatever bigIntString passes to it, so
\* bigIntString of a non-nil balance returns a string for every decimals
\* count, 0 included.
C30_CleanNeverFails ==
  (rendered.op = "bigIntString" /\ ~balance.nil) => ~rendered.res.panic

(***************************************************************************)
(* The returned report and its accessors (specification Spec).             *)
(***************************************************************************)
\* C26: BalanceString, ETHString and ToJSON leave the report as the query
\* returned it, Balance and ETH included, and what each returns is a function
\* of that report alone, so that repeated calls in any order return the same
\* strings.
C26_AccessorsLeaveReport ==
  /\ [][(CallETHString \/ CallBalanceString \/ CallToJSON) =>
          tb' = tb /\ err' = err /\ pc' = pc]_vars
  /\ [](pc = "returned" =>
          /\ tb = Report(token_contract, account_wallet, blockNumber, chain)
          /\ out.op = "ETHString" => out.res = ETHString(tb)
          /\ out.op = "BalanceString" => out.res = BalanceString(tb)
          /\ out.op = "ToJSON" => out.res = ToJSON(tb))

C26_Witness ==
  /\ pc = "returned"
  /\ out.op = "BalanceString"
  /\ out.res = Returned(<<49, 46, 53>>)
  /\ tb.Balance = BigInt(Units)
  /\ tb.ETH = BigInt(Wei)

SendOrder ==
  <<"HexToECDSA", "privateKeyToPubAddress", "SuggestGasPrice", "PendingNonceAt",
    "SignTx", "SendTransaction">>

SendCalled(call) == \E i \in 1..Len(sendCall.calls) : sendCall.calls[i] = call

\* C28: SendAmount parses the key, asks for the gas price and for the pending
\* nonce in this order and signs and submits only after all three succeeded;
\* when one of them fails it returns that step's error with nothing signed or
\* submitted; one call submits at most one transaction.
C28_SendOnlyAfterLookups ==
  /\ Len(sendCall.calls) <= Len(SendOrder)
  /\ sendCall.calls = SubSeq(SendOrder, 1, Len(sendCall.calls))
  /\ Len(sendCall.sent) <= 1
  /\ (SendCalled("SignTx") \/ SendCalled("SendTransaction")) =>
       /\ HexToECDSA(sendCall.fromPriv).ok
       /\ sendCall.gasPrice.ok
       /\ sendCall.nonce.ok
  /\ sendCall.sent # <<>> => sendCall.sent = sendCall.signTx
  /\ (sendCall.pc = "returned" /\ ~HexToECDSA(sendCall.fromPriv).ok) =>
       /\ sendCall.err = "HexToECDSA"
       /\ sendCall.signTx = <<>> /\ sendCall.sent = <<>>
  /\ (/\ sendCall.pc = "returned"
      /\ HexToECDSA(sendCall.fromPriv).ok
      /\ ~sendCall.gasPrice.ok) =>
       /\ sendCall.err = "SuggestGasPrice"
       /\ sendCall.signTx = <<>> /\ sendCall.sent = <<>>
  /\ (/\ sendCall.pc = "returned"
      /\ HexToECDSA(sendCall.fromPriv).ok
      /\ sendCall.gasPrice.ok
      /\ ~sendCall.nonce.ok) =>
       /\ sendCall.err = "PendingNonceAt"
       /\ sendCall.signTx = <<>> /\ sendCall.sent = <<>>

C28_Witness ==
  /\ sendCall.pc = "returned"
  /\ sendCall.err = "nil"
  /\ sendCall.calls = SendOrder
  /\ Len(sendCall.sent) = 1
  /\ sendCall.sent[1].tx.nonce = 3

(***************************************************************************)
(* Properties of GetInfo (specification InfoSpec).                         *)
(***************************************************************************)
\* C29: GetInfo returns an error, with the empty string, exactly when its
\* block-number read fails; otherwise it has issued the NodeInfo and the
\* AdminPeers read, each of which, when it fails, leaves its own field null
\* and nothing else.
C29_InfoFailsOnBlockOnly ==
  infoCall.pc = "returned" =>
    /\ infoCall.err # "nil" <=> ~BlockNumberRead(infoCall.block).ok
    /\ infoCall.err # "nil" => infoCall.err = "BlockNumber" /\ infoCall.out = <<>>
    /\ infoCall.err = "nil" =>
         /\ infoCall.calls = <<"BlockNumber", "NodeInfo", "AdminPeers">>
         /\ infoCall.out =
              <<<<"nodeInfo",
                  IF infoCall.nodeInfo.ok /\ infoCall.nodeInfo.val # "nil"
                  THEN infoCall.nodeInfo.val ELSE "null">>,
                <<"adminPeers",
                  IF infoCall.adminPeers.ok
                  THEN [null |-> FALSE, items |-> infoCall.adminPeers.val.peers]
                  ELSE [null |-> TRUE, items |-> <<>>]>>,
                <<"blockNumber", BigIntText(DecodeBig(infoCall.block.val).val)>>>>

C29_Witness ==
  /\ infoCall.pc = "returned"
  /\ infoCall.err = "nil"
  /\ ~infoCall.nodeInfo.ok
  /\ infoCall.out =
       <<<<"nodeInfo", "null">>,
         <<"adminPeers", [null |-> FALSE, items |-> <<"enode-b">>]>>,
         <<"blockNumber", <<50, 54>>>>>>

====
